---- MODULE Spec2Model ----
(***************************************************************************)
(* The textfile module of lib/ansible/modules/files/textfile.py:           *)
(* process_file reads the file at path, removes a leading byte order mark, *)
(* decodes the bytes, unifies the line endings, applies the end_eol        *)
(* policy, encodes, puts a byte order mark back, compares the result with  *)
(* the bytes it read and replaces the file.                                *)
(*                                                                         *)
(* A byte is a number 0..255, a byte buffer a sequence of bytes, a text a  *)
(* sequence of Unicode code points.  The codecs are those of Python 3 for  *)
(* the six encodings guess_encoding can return.                            *)
(***************************************************************************)
EXTENDS Integers, Sequences, FiniteSets, TLC

VARIABLES
    file,      \* the bytes of the file at params['path']
    params,    \* module.params, fixed when the module is constructed
    calls,     \* what each call of process_file so far did, oldest first
    temp       \* the contents of the files of mkstemp left in the temp directory

vars == <<file, params, calls, temp>>

(***************************************************************************)
(* Bounds of the model.                                                    *)
(***************************************************************************)
MaxEolLen == 4     \* longest buffer of the line-ending family
MaxUnits == 2      \* most fragments in a buffer of the codec family
MaxCalls == 2      \* calls of process_file on the same path

(***************************************************************************)
(* Byte strings of process_file.                                           *)
(***************************************************************************)
b_crlf == <<13, 10>>
b_cr == <<13>>
b_lf == <<10>>
b_bom8 == <<239, 187, 191>>
b_bom16le == <<255, 254>>
b_bom16be == <<254, 255>>
b_empty == <<>>

\* The character Python's codecs write for one that cannot be encoded
\* under errors='replace'.
QuestionMark == 63

(***************************************************************************)
(* Python's sequence methods.                                              *)
(***************************************************************************)
startswith(s, p) == Len(s) >= Len(p) /\ SubSeq(s, 1, Len(p)) = p

endswith(s, p) == Len(s) >= Len(p) /\ SubSeq(s, Len(s) - Len(p) + 1, Len(s)) = p

\* s[n:]
DropFirst(s, n) == SubSeq(s, n + 1, Len(s))

\* s[:-n], n > 0
DropLast(s, n) == SubSeq(s, 1, Len(s) - n)

\* b.find(x) for one byte x: the 0-based index of its first occurrence, or -1
find(b, x) ==
    IF \E i \in 1..Len(b) : b[i] = x
    THEN (CHOOSE i \in 1..Len(b) : b[i] = x /\ \A j \in 1..(i - 1) : b[j] # x) - 1
    ELSE -1

\* s.replace(old, new), old not empty: the occurrences of old are found from
\* the left and do not overlap
RECURSIVE replace(_, _, _)
replace(s, old, new) ==
    IF s = <<>> THEN <<>>
    ELSE IF startswith(s, old)
         THEN new \o replace(DropFirst(s, Len(old)), old, new)
         ELSE <<Head(s)>> \o replace(Tail(s), old, new)

(***************************************************************************)
(* The codecs.  A decoder gives [ok, text]; ok is FALSE where Python       *)
(* raises UnicodeDecodeError.                                              *)
(***************************************************************************)
DecodeError == [ok |-> FALSE, text |-> <<>>]

Decoded(t) == [ok |-> TRUE, text |-> t]

IsSurrogate(c) == c >= 55296 /\ c <= 57343

IsCont(x) == x >= 128 /\ x <= 191

\* cp1252's characters for the bytes 0x80..0x9f; 0 marks an undefined byte
Cp1252High ==
    <<8364, 0, 8218, 402, 8222, 8230, 8224, 8225, 710, 8240, 352, 8249, 338, 0,
      381, 0, 0, 8216, 8217, 8220, 8221, 8226, 8211, 8212, 732, 8482, 353,
      8250, 339, 0, 382, 376>>

Cp1252Char(x) == IF x >= 128 /\ x <= 159 THEN Cp1252High[x - 127] ELSE x

\* Whether a single-byte codec has a character for the byte
CharmapDecodes(x, enc) ==
    CASE enc = "ascii" -> x < 128
      [] enc = "latin_1" -> TRUE
      [] enc = "cp1252" -> ~(x >= 128 /\ x <= 159 /\ Cp1252High[x - 127] = 0)

CharmapDecode(b, enc) ==
    IF \A i \in 1..Len(b) : CharmapDecodes(b[i], enc)
    THEN Decoded([i \in 1..Len(b) |->
                    IF enc = "cp1252" THEN Cp1252Char(b[i]) ELSE b[i]])
    ELSE DecodeError

\* The length of the well-formed UTF-8 sequence b starts with, 0 if none
Utf8SeqLen(b) ==
    LET n == Len(b)
        b1 == b[1]
    IN  IF b1 < 128 THEN 1
        ELSE IF b1 >= 194 /\ b1 <= 223
        THEN IF n >= 2 /\ IsCont(b[2]) THEN 2 ELSE 0
        ELSE IF b1 >= 224 /\ b1 <= 239
        THEN IF /\ n >= 3
                /\ IsCont(b[2])
                /\ IsCont(b[3])
                /\ (b1 = 224 => b[2] >= 160)
                /\ (b1 = 237 => b[2] <= 159)
             THEN 3 ELSE 0
        ELSE IF b1 >= 240 /\ b1 <= 244
        THEN IF /\ n >= 4
                /\ IsCont(b[2])
                /\ IsCont(b[3])
                /\ IsCont(b[4])
                /\ (b1 = 240 => b[2] >= 144)
                /\ (b1 = 244 => b[2] <= 143)
             THEN 4 ELSE 0
        ELSE 0

Utf8Char(b, n) ==
    CASE n = 1 -> b[1]
      [] n = 2 -> ((b[1] - 192) * 64) + (b[2] - 128)
      [] n = 3 -> ((b[1] - 224) * 4096) + ((b[2] - 128) * 64) + (b[3] - 128)
      [] n = 4 -> ((b[1] - 240) * 262144) + ((b[2] - 128) * 4096)
                    + ((b[3] - 128) * 64) + (b[4] - 128)

RECURSIVE Utf8Decode(_)
Utf8Decode(b) ==
    IF b = <<>> THEN Decoded(<<>>)
    ELSE LET n == Utf8SeqLen(b)
         IN  IF n = 0 THEN DecodeError
             ELSE LET rest == Utf8Decode(DropFirst(b, n))
                  IN  IF rest.ok
                      THEN Decoded(<<Utf8Char(b, n)>> \o rest.text)
                      ELSE DecodeError

\* The 16-bit unit of two bytes, first byte first
Unit16(x, y, enc) == IF enc = "utf_16_le" THEN (y * 256) + x ELSE (x * 256) + y

RECURSIVE Utf16Decode(_, _)
Utf16Decode(b, enc) ==
    IF b = <<>> THEN Decoded(<<>>)
    ELSE IF Len(b) < 2 THEN DecodeError
    ELSE LET u == Unit16(b[1], b[2], enc)
         IN  IF ~IsSurrogate(u)
             THEN LET rest == Utf16Decode(DropFirst(b, 2), enc)
                  IN  IF rest.ok THEN Decoded(<<u>> \o rest.text) ELSE DecodeError
             ELSE IF u <= 56319 /\ Len(b) >= 4
                     /\ Unit16(b[3], b[4], enc) >= 56320
                     /\ Unit16(b[3], b[4], enc) <= 57343
             THEN LET rest == Utf16Decode(DropFirst(b, 4), enc)
                      c == 65536 + ((u - 55296) * 1024)
                             + (Unit16(b[3], b[4], enc) - 56320)
                  IN  IF rest.ok THEN Decoded(<<c>> \o rest.text) ELSE DecodeError
             ELSE DecodeError

\* b.decode(enc)
decode(b, enc) ==
    CASE enc \in {"ascii", "latin_1", "cp1252"} -> CharmapDecode(b, enc)
      [] enc = "utf_8" -> Utf8Decode(b)
      [] enc \in {"utf_16_le", "utf_16_be"} -> Utf16Decode(b, enc)

\* Whether the codec has bytes for the character
CanEncode(c, enc) ==
    CASE enc = "ascii" -> c < 128
      [] enc = "latin_1" -> c < 256
      [] enc = "cp1252" ->
            \/ c < 128
            \/ (c >= 160 /\ c <= 255)
            \/ \E i \in 1..32 : Cp1252High[i] = c /\ c # 0
      [] enc \in {"utf_8", "utf_16_le", "utf_16_be"} -> ~IsSurrogate(c)

Pair16(u, enc) ==
    IF enc = "utf_16_le" THEN <<u % 256, u \div 256>> ELSE <<u \div 256, u % 256>>

\* The bytes of one character the codec can encode
EncodeChar(c, enc) ==
    CASE enc \in {"ascii", "latin_1"} -> <<c>>
      [] enc = "cp1252" ->
            IF c < 128 \/ (c >= 160 /\ c <= 255) THEN <<c>>
            ELSE <<127 + (CHOOSE i \in 1..32 : Cp1252High[i] = c)>>
      [] enc = "utf_8" ->
            IF c < 128 THEN <<c>>
            ELSE IF c < 2048 THEN <<192 + (c \div 64), 128 + (c % 64)>>
            ELSE IF c < 65536
            THEN <<224 + (c \div 4096), 128 + ((c \div 64) % 64), 128 + (c % 64)>>
            ELSE <<240 + (c \div 262144), 128 + ((c \div 4096) % 64),
                   128 + ((c \div 64) % 64), 128 + (c % 64)>>
      [] enc \in {"utf_16_le", "utf_16_be"} ->
            IF c < 65536 THEN Pair16(c, enc)
            ELSE Pair16(55296 + ((c - 65536) \div 1024), enc)
                   \o Pair16(56320 + ((c - 65536) % 1024), enc)

\* EncodeOne with 'replace' dropping the character as 'ignore' does
EncodeOneReplaceDrops(c, enc, errors) ==
    IF CanEncode(c, enc) THEN EncodeChar(c, enc) ELSE <<>>

\* What errors makes of one character: its bytes, '?' or nothing
EncodeOne(c, enc, errors) ==
    IF CanEncode(c, enc) THEN EncodeChar(c, enc)
    ELSE IF errors = "replace" THEN EncodeChar(QuestionMark, enc)
    ELSE <<>>

RECURSIVE Concat(_)
Concat(ss) == IF ss = <<>> THEN <<>> ELSE Head(ss) \o Concat(Tail(ss))

\* s.encode(enc, errors=errors): [ok, bytes]; ok is FALSE where Python
\* raises UnicodeEncodeError
encode(s, enc, errors) ==
    IF errors = "strict" /\ \E i \in 1..Len(s) : ~CanEncode(s[i], enc)
    THEN [ok |-> FALSE, bytes |-> <<>>]
    ELSE [ok |-> TRUE,
          bytes |-> Concat([i \in 1..Len(s) |-> EncodeOne(s[i], enc, errors)])]

(***************************************************************************)
(* guess_encoding                                                          *)
(***************************************************************************)
\* The encodings guess_encoding tries when the buffer holds no zero byte
GuessOrder == <<"ascii", "utf_8", "cp1252", "latin_1">>

\* The first encoding of GuessOrder from position i on that decodes b;
\* "bug: fallback failed" stands for the exception after the loop
RECURSIVE FirstDecoding(_, _)
FirstDecoding(b, i) ==
    IF i > Len(GuessOrder) THEN "bug: fallback failed"
    ELSE IF decode(b, GuessOrder[i]).ok THEN GuessOrder[i]
    ELSE FirstDecoding(b, i + 1)

GuessEncodingOddIsBe(b_text) ==
    LET zero_ix == find(b_text, 0)
    IN  IF zero_ix >= 0
        THEN IF zero_ix % 2 = 0 THEN "utf_16_le" ELSE "utf_16_be"
        ELSE FirstDecoding(b_text, 1)

guess_encoding(b_text) ==
    LET zero_ix == find(b_text, 0)
    IN  IF zero_ix >= 0
        THEN IF zero_ix % 2 = 0 THEN "utf_16_be" ELSE "utf_16_le"
        ELSE FirstDecoding(b_text, 1)

utf_encoding_names == {"utf_8", "utf_16_be", "utf_16_le"}

(***************************************************************************)
(* The stages of process_file.                                             *)
(***************************************************************************)
EolValues == {"crlf", "cr", "lf"}

\* Set desired eol byte sequence
DesiredEol(p) ==
    CASE p = "crlf" -> b_crlf
      [] p = "cr" -> b_cr
      [] p = "lf" -> b_lf

\* Set input encoding
InputEncoding(b_in, p) ==
    IF p.original_encoding = "guess" THEN guess_encoding(b_in)
    ELSE p.original_encoding

\* Set output encoding
OutputEncoding(from_enc, p) ==
    IF p.encoding = "as-is" THEN from_enc ELSE p.encoding

\* Delete byte order mark but remember if we had one
have_bom(b_in) ==
    \/ startswith(b_in, b_bom8)
    \/ startswith(b_in, b_bom16le)
    \/ startswith(b_in, b_bom16be)

DeleteBom(b_in) ==
    IF startswith(b_in, b_bom8) THEN DropFirst(b_in, Len(b_bom8))
    ELSE IF startswith(b_in, b_bom16le) \/ startswith(b_in, b_bom16be)
    THEN DropFirst(b_in, Len(b_bom16le))
    ELSE b_in

\* EnsureEol with the lone CR replaced before the CRLF pair
EnsureEolCrFirst(s, eol) ==
    replace(replace(replace(s, b_cr, b_lf), b_crlf, b_lf), b_lf, eol)

\* Ensure the required eol type, using lf as intermediate
EnsureEol(s, eol) == replace(replace(replace(s, b_crlf, b_lf), b_cr, b_lf), b_lf, eol)

\* ObeyEndEol without the test for a terminator that is already there
ObeyEndEolAlwaysAppends(s, eol, end_eol) ==
    IF end_eol = "present" THEN s \o eol
    ELSE IF end_eol = "absent" /\ endswith(s, eol) THEN DropLast(s, Len(eol))
    ELSE s

\* Obey end eol requirement
ObeyEndEol(s, eol, end_eol) ==
    IF end_eol = "present" /\ ~endswith(s, eol) THEN s \o eol
    ELSE IF end_eol = "absent" /\ endswith(s, eol) THEN DropLast(s, Len(eol))
    ELSE s

\* Whether a bom is added
BomRequired(to_enc, had_bom, bom) ==
    to_enc \in utf_encoding_names /\ had_bom /\ bom = "as-is"

\* BomOf with the two utf_16 marks taken for each other
BomOfSwapped(to_enc) ==
    CASE to_enc = "utf_8" -> b_bom8
      [] to_enc = "utf_16_le" -> b_bom16be
      [] to_enc = "utf_16_be" -> b_bom16le

\* The bom added for an encoding of utf_encoding_names
BomOf(to_enc) ==
    CASE to_enc = "utf_8" -> b_bom8
      [] to_enc = "utf_16_le" -> b_bom16le
      [] to_enc = "utf_16_be" -> b_bom16be

\* Add bom if required
AddBom(b, to_enc, had_bom, bom) ==
    IF BomRequired(to_enc, had_bom, bom) THEN BomOf(to_enc) \o b ELSE b

\* Changed with the output compared to the input without its bom
ChangedFromStripped(b_out, b_in) == b_out # DeleteBom(b_in)

\* if (b_out != b_in): changed = True
Changed(b_out, b_in) == b_out # b_in

\* The local variables of a call of process_file when it ends: error is ""
\* when it returns and the exception when it raises; a variable the call
\* never assigned is empty
Locals(error, eol, b_in, from_enc, to_enc, had_bom, s_dec, s_eol, s_out, b_enc, b_out) ==
    [ok |-> error = "", error |-> error, eol |-> eol, b_in |-> b_in, from_enc |-> from_enc,
     to_enc |-> to_enc, have_bom |-> had_bom, s_dec |-> s_dec, s_eol |-> s_eol,
     s_out |-> s_out, b_enc |-> b_enc, b_out |-> b_out,
     changed |-> error = "" /\ Changed(b_out, b_in)]

\* One call of process_file on a file holding b_in
process_file(b_in, p) ==
    IF p.eol \notin EolValues
    THEN Locals("missing support for eol", <<>>, <<>>, "", "", FALSE,
                <<>>, <<>>, <<>>, <<>>, <<>>)
    ELSE
    LET eol == DesiredEol(p.eol)
        from_enc == InputEncoding(b_in, p)
        to_enc == OutputEncoding(from_enc, p)
        had_bom == have_bom(b_in)
        dec == decode(DeleteBom(b_in), from_enc)
        s_eol == EnsureEol(dec.text, eol)
        s_out == ObeyEndEol(s_eol, eol, p.end_eol)
        enc == encode(s_out, to_enc, p.encoding_errors)
        b_out == AddBom(enc.bytes, to_enc, had_bom, p.bom)
    IN  IF ~dec.ok
        THEN Locals("UnicodeDecodeError", eol, b_in, from_enc, to_enc, had_bom,
                    <<>>, <<>>, <<>>, <<>>, <<>>)
        ELSE IF ~enc.ok
        THEN Locals("UnicodeEncodeError", eol, b_in, from_enc, to_enc, had_bom,
                    dec.text, s_eol, s_out, <<>>, <<>>)
        ELSE Locals("", eol, b_in, from_enc, to_enc, had_bom,
                    dec.text, s_eol, s_out, enc.bytes, b_out)

(***************************************************************************)
(* The files and the parameters the model starts from.                     *)
(***************************************************************************)
Encodings == {"ascii", "utf_8", "cp1252", "latin_1", "utf_16_le", "utf_16_be"}

EndEolValues == {"absent", "present", "as-is"}

BomValues == {"absent", "as-is"}

ErrorValues == {"strict", "replace", "ignore"}

\* The argument_spec of main: every combination of the choices
AllParams ==
    [eol : EolValues, end_eol : EndEolValues, bom : BomValues,
     encoding : {"as-is"} \cup Encodings,
     original_encoding : {"guess"} \cup Encodings,
     encoding_errors : ErrorValues]

SeqsUpTo(S, n) == UNION {[1..k -> S] : k \in 0..n}

\* Line endings: NUL, LF, CR and the letter A in any order
EolBytes == {0, 10, 13, 65}

EolFiles == SeqsUpTo(EolBytes, MaxEolLen)

\* with the defaults of main for all but eol and end_eol
EolParams ==
    {p \in AllParams :
        /\ p.bom = "as-is"
        /\ p.encoding = "as-is"
        /\ p.original_encoding = "guess"
        /\ p.encoding_errors = "strict"}

\* Encodings: the three byte order marks, the letter A in a single-byte
\* encoding and in utf_16_le, a-ring in cp1252 and in utf_8, and a byte only
\* latin_1 decodes
Units ==
    {b_bom8, b_bom16le, b_bom16be, <<65>>, <<65, 0>>, <<229>>, <<195, 165>>,
     <<129>>}

CodecFiles == {Concat(us) : us \in SeqsUpTo(Units, MaxUnits)}

\* with eol=lf and the default of end_eol; the original encoding is guessed
\* or one that can reject a buffer
CodecParams ==
    {p \in AllParams :
        /\ p.eol = "lf"
        /\ p.end_eol = "as-is"
        /\ p.original_encoding \notin {"ascii", "latin_1"}}

(***************************************************************************)
(* The module is constructed with its parameters and the file exists.      *)
(***************************************************************************)
Init ==
    /\ calls = <<>>
    /\ temp = <<>>
    /\ \/ file \in EolFiles /\ params \in EolParams
       \/ file \in CodecFiles /\ params \in CodecParams
       \/ file = b_empty /\ params \in AllParams

(***************************************************************************)
(* process_file returns: the temporary file it made, with b_out written to *)
(* it, has been moved onto the file at path.                               *)
(***************************************************************************)
ProcessFileReturns ==
    /\ Len(calls) < MaxCalls
    /\ LET r == process_file(file, params)
       IN  /\ r.ok
           /\ file' = r.b_out
           /\ calls' = Append(calls, r)
    /\ UNCHANGED <<params, temp>>

(***************************************************************************)
(* process_file raises: nothing has been written, and the temporary file   *)
(* it made when it began stays behind, empty.                              *)
(***************************************************************************)
ProcessFileRaisesAfterOpening ==
    /\ Len(calls) < MaxCalls
    /\ LET r == process_file(file, params)
       IN  /\ ~r.ok
           /\ file' = r.b_enc
           /\ calls' = Append(calls, r)
    /\ temp' = Append(temp, b_empty)
    /\ UNCHANGED params

ProcessFileRaises ==
    /\ Len(calls) < MaxCalls
    /\ LET r == process_file(file, params)
       IN  /\ ~r.ok
           /\ calls' = Append(calls, r)
    /\ temp' = Append(temp, b_empty)
    /\ UNCHANGED <<file, params>>

Next == ProcessFileReturns \/ ProcessFileRaises

Spec == Init /\ [][Next]_vars

(***************************************************************************)
(* The same module constructed with the defaults of main for bom,          *)
(* encoding, original_encoding and encoding_errors.                        *)
(***************************************************************************)
InitDefaults ==
    /\ calls = <<>>
    /\ temp = <<>>
    /\ file \in EolFiles \cup CodecFiles
    /\ params \in EolParams

SpecDefaults == InitDefaults /\ [][Next]_vars

(***************************************************************************)
(* The module run again as another task on the same path, with another     *)
(* eol: main builds a new AnsibleModule from the task's arguments.  The    *)
(* tasks leave end_eol, bom and the two encodings at their defaults.       *)
(***************************************************************************)
InitRoundTrip ==
    /\ calls = <<>>
    /\ temp = <<>>
    /\ file \in EolFiles \cup CodecFiles
    /\ params \in {p \in EolParams : p.end_eol = "as-is"}

SetEol ==
    /\ Len(calls) < MaxCalls
    /\ \E y \in EolValues \ {params.eol} : params' = [params EXCEPT !.eol = y]
    /\ UNCHANGED <<file, calls, temp>>

NextRoundTrip == ProcessFileReturns \/ ProcessFileRaises \/ SetEol

SpecRoundTrip == InitRoundTrip /\ [][NextRoundTrip]_vars

(***************************************************************************)
(* process_file called with a module object whose params nobody compared   *)
(* with the choices of main, as the unit tests call it with FakeModule:    *)
(* eol, end_eol and bom may hold a value that is none of the choices.      *)
(***************************************************************************)
Unsupported == "other"

UncheckedParams ==
    [eol : EolValues \cup {Unsupported},
     end_eol : EndEolValues \cup {Unsupported},
     bom : BomValues \cup {Unsupported},
     encoding : {"as-is", "ascii"},
     original_encoding : {"guess"},
     encoding_errors : {"strict"}]

UncheckedFiles == CodecFiles \cup SeqsUpTo({10, 65}, MaxUnits)

InitUnchecked ==
    /\ calls = <<>>
    /\ temp = <<>>
    /\ file \in UncheckedFiles
    /\ params \in UncheckedParams

SpecUnchecked == InitUnchecked /\ [][Next]_vars

(***************************************************************************)
(* What the properties speak of.                                           *)
(***************************************************************************)
Calls == 1..Len(calls)

Returned == {k \in Calls : calls[k].ok}

\* The bytes at path after call k
FileAfter(k) == IF k = Len(calls) THEN file ELSE calls[k + 1].b_in

\* The terminator the parameters ask for, as text
TargetEol == DesiredEol(params.eol)

IsEolChar(c) == c = 13 \/ c = 10

\* A text read from the left, every CRLF, lone CR and lone LF replaced by eol
RECURSIVE SinglePass(_, _)
SinglePass(s, eol) ==
    IF s = <<>> THEN <<>>
    ELSE IF Len(s) >= 2 /\ s[1] = 13 /\ s[2] = 10
    THEN eol \o SinglePass(DropFirst(s, 2), eol)
    ELSE IF IsEolChar(s[1]) THEN eol \o SinglePass(Tail(s), eol)
    ELSE <<s[1]>> \o SinglePass(Tail(s), eol)

\* The number of line-terminator tokens of a text: a CR counts unless an LF
\* follows it, in which case the LF counts for both
TokenCount(s) ==
    Cardinality({i \in 1..Len(s) :
        \/ s[i] = 10
        \/ s[i] = 13 /\ ~(i < Len(s) /\ s[i + 1] = 10)})

\* A text without the occurrences of eol
RECURSIVE WithoutEol(_, _)
WithoutEol(s, eol) ==
    IF s = <<>> THEN <<>>
    ELSE IF startswith(s, eol) THEN WithoutEol(DropFirst(s, Len(eol)), eol)
    ELSE <<Head(s)>> \o WithoutEol(Tail(s), eol)

EndsWithLineEnding(s) == s # <<>> /\ IsEolChar(s[Len(s)])

\* Whether a buffer begins with one of the three byte order marks
BeginsWithMark(b) ==
    \/ startswith(b, <<239, 187, 191>>)
    \/ startswith(b, <<255, 254>>)
    \/ startswith(b, <<254, 255>>)

\* The byte order mark of an encoding, empty if it has none
MarkOf(enc) ==
    CASE enc = "utf_8" -> <<239, 187, 191>>
      [] enc = "utf_16_le" -> <<255, 254>>
      [] enc = "utf_16_be" -> <<254, 255>>
      [] OTHER -> <<>>

\* For each character of the text a call encoded, whether its target
\* encoding can represent it
Representable(r) ==
    [i \in 1..Len(r.s_out) |-> CanEncode(r.s_out[i], r.to_enc)]

\* The characters of s at the positions keep marks, in order
Kept(s, keep) ==
    LET F[i \in 0..Len(s)] ==
            IF i = 0 THEN <<>>
            ELSE IF keep[i] THEN Append(F[i - 1], s[i]) ELSE F[i - 1]
    IN  F[Len(s)]

(***************************************************************************)
(* C1: whenever process_file returns, changed is true exactly when the     *)
(* bytes now at path differ from the bytes the call read.                  *)
(***************************************************************************)
C1_ChangedIffBytesDiffer ==
    \A k \in Returned : calls[k].changed <=> (FileAfter(k) # calls[k].b_in)

\* a first call that rewrote the file and a second that left it as it was
C1_Witness ==
    /\ Len(calls) = 2
    /\ calls[1].ok /\ calls[1].changed /\ file # <<>>
    /\ calls[2].ok /\ ~calls[2].changed

(***************************************************************************)
(* C2: a call that reads an empty file and returns leaves an empty file    *)
(* and reports changed = false, whatever eol and end_eol are.              *)
(***************************************************************************)
C2_EmptyStaysEmpty ==
    \A k \in Returned :
        calls[k].b_in = <<>> => FileAfter(k) = <<>> /\ ~calls[k].changed

(***************************************************************************)
(* C3: with end_eol=as-is the text after normalization is the decoded text *)
(* with every CRLF, lone CR and lone LF replaced by the target terminator  *)
(* in one pass from the left; it has as many terminators as the decoded    *)
(* text, no CR or LF outside a target terminator, and ends with a          *)
(* terminator exactly when the decoded text does.                          *)
(***************************************************************************)
C3_NormalizationIsSinglePass ==
    \A k \in Returned :
        params.end_eol = "as-is" =>
            /\ calls[k].s_out = SinglePass(calls[k].s_dec, TargetEol)
            /\ TokenCount(calls[k].s_out) = TokenCount(calls[k].s_dec)
            /\ \A i \in 1..Len(WithoutEol(calls[k].s_out, TargetEol)) :
                    ~IsEolChar(WithoutEol(calls[k].s_out, TargetEol)[i])
            /\ endswith(calls[k].s_out, TargetEol)
                    <=> EndsWithLineEnding(calls[k].s_dec)

\* a text with a CRLF pair and a lone CR or LF beside it, rewritten
C3_Witness ==
    /\ params.end_eol = "as-is"
    /\ \E k \in Returned :
        /\ \E i \in 1..(Len(calls[k].s_dec) - 1) :
                calls[k].s_dec[i] = 13 /\ calls[k].s_dec[i + 1] = 10
        /\ TokenCount(calls[k].s_dec) >= 2
        /\ \E i \in 2..Len(calls[k].s_dec) :
                calls[k].s_dec[i - 1] = 13 /\ calls[k].s_dec[i] = 13
        /\ calls[k].s_out # calls[k].s_dec

(***************************************************************************)
(* C4: with end_eol=present and a decoded text that is not empty, the      *)
(* output text ends with the target terminator: the normalized text as it  *)
(* is when it already ends with one, else with exactly one appended.       *)
(***************************************************************************)
C4_PresentAppendsOnce ==
    \A k \in Returned :
        params.end_eol = "present" /\ calls[k].s_dec # <<>> =>
            /\ endswith(calls[k].s_out, TargetEol)
            /\ calls[k].s_eol = SinglePass(calls[k].s_dec, TargetEol)
            /\ endswith(calls[k].s_eol, TargetEol)
                    <=> EndsWithLineEnding(calls[k].s_dec)
            /\ IF endswith(calls[k].s_eol, TargetEol)
               THEN calls[k].s_out = calls[k].s_eol
               ELSE calls[k].s_out = calls[k].s_eol \o TargetEol

\* a first call that appended the terminator and a second that found it
C4_Witness ==
    /\ params.end_eol = "present"
    /\ Len(calls) = 2 /\ calls[1].ok /\ calls[2].ok
    /\ calls[1].s_dec # <<>>
    /\ calls[1].s_out = calls[1].s_eol \o TargetEol
    /\ calls[2].s_out = calls[2].s_eol

(***************************************************************************)
(* C5: with end_eol=absent one trailing target terminator is removed from  *)
(* the normalized text when it ends with one, the text is left as it is    *)
(* when it does not, and the last line of the result does not end with a   *)
(* line ending.                                                            *)
(***************************************************************************)
C5_AbsentLeavesNoLineEnding ==
    \A k \in Returned :
        params.end_eol = "absent" =>
            /\ IF endswith(calls[k].s_eol, TargetEol)
               THEN calls[k].s_out
                        = DropLast(calls[k].s_eol, Len(TargetEol))
               ELSE calls[k].s_out = calls[k].s_eol
            /\ ~EndsWithLineEnding(calls[k].s_out)

(***************************************************************************)
(* C6: the output is the encoded text with a byte order mark before it     *)
(* exactly when the target encoding is utf_8, utf_16_le or utf_16_be, the  *)
(* input began with one of the three marks and bom=as-is; the mark is the  *)
(* one of the target encoding, whichever the input began with.             *)
(***************************************************************************)
C6_BomOfTargetIffKept ==
    \A k \in Returned :
        FileAfter(k) =
            (IF /\ calls[k].to_enc \in {"utf_8", "utf_16_le", "utf_16_be"}
                /\ BeginsWithMark(calls[k].b_in)
                /\ params.bom = "as-is"
             THEN MarkOf(calls[k].to_enc)
             ELSE <<>>) \o calls[k].b_enc

\* a file that began with the utf_8 mark, written as utf_16_le with its mark
C6_Witness ==
    /\ params.bom = "as-is"
    /\ \E k \in Returned :
        /\ startswith(calls[k].b_in, <<239, 187, 191>>)
        /\ calls[k].to_enc = "utf_16_le"
        /\ calls[k].b_enc # <<>>
        /\ FileAfter(k) = <<255, 254>> \o calls[k].b_enc

(***************************************************************************)
(* C7: with bom=absent and a target encoding of utf_8, utf_16_le or        *)
(* utf_16_be, the file a call leaves does not begin with the byte order    *)
(* mark of the target encoding.                                            *)
(***************************************************************************)
C7_AbsentLeavesNoMark ==
    \A k \in Returned :
        /\ params.bom = "absent"
        /\ calls[k].to_enc \in {"utf_8", "utf_16_le", "utf_16_be"}
        => ~startswith(FileAfter(k), MarkOf(calls[k].to_enc))

(***************************************************************************)
(* C8: the encoding step raises only with encoding_errors=strict and a     *)
(* character the target encoding cannot represent in the text; with        *)
(* replace the encoded bytes read back as the text with each such          *)
(* character turned into one '?', with ignore as the text without them.    *)
(***************************************************************************)
C8_EncodeErrorPolicies ==
    \A k \in Calls :
        LET r == calls[k]
            can == Representable(r)
        IN  /\ r.error = "UnicodeEncodeError" =>
                /\ params.encoding_errors = "strict"
                /\ \E i \in 1..Len(r.s_out) : ~can[i]
            /\ r.ok /\ params.encoding_errors = "replace" =>
                decode(r.b_enc, r.to_enc) =
                    Decoded([i \in 1..Len(r.s_out) |->
                                IF can[i] THEN r.s_out[i] ELSE 63])
            /\ r.ok /\ params.encoding_errors = "ignore" =>
                decode(r.b_enc, r.to_enc) = Decoded(Kept(r.s_out, can))

\* a text with a character ascii can represent and one it cannot, encoded
\* with replace
C8_Witness ==
    /\ params.encoding_errors = "replace"
    /\ \E k \in Returned :
        /\ calls[k].to_enc = "ascii"
        /\ Representable(calls[k]) = <<TRUE, FALSE>>
        /\ calls[k].b_enc = <<calls[k].s_out[1], 63>>

(***************************************************************************)
(* C9: with end_eol other than absent, a call on the file that a call      *)
(* which returned left behind returns too and reports changed = false.     *)
(***************************************************************************)
C9_SecondCallChangesNothing ==
    \A k \in Returned :
        params.end_eol # "absent" /\ k < Len(calls) =>
            /\ calls[k + 1].ok
            /\ ~calls[k + 1].changed
            /\ FileAfter(k + 1) = FileAfter(k)

(***************************************************************************)
(* C10: with encoding, bom and end_eol all as-is, a file that decodes      *)
(* under the source encoding and whose line terminators are all the target *)
(* terminator already is left byte for byte as it was, with changed =      *)
(* false.                                                                  *)
(***************************************************************************)
C10_NoOpKeepsBytes ==
    \A k \in Returned :
        LET whole == decode(calls[k].b_in, calls[k].from_enc)
        IN  /\ params.encoding = "as-is"
            /\ params.bom = "as-is"
            /\ params.end_eol = "as-is"
            /\ whole.ok
            /\ SinglePass(whole.text, TargetEol) = whole.text
            => FileAfter(k) = calls[k].b_in /\ ~calls[k].changed

(***************************************************************************)
(* C11: with end_eol, bom and encoding as-is, when a call that returns ran *)
(* with eol Y on a text whose line terminators are all of another kind X   *)
(* and the next call runs with eol X, that next call returns and leaves    *)
(* the bytes the first call read; and the first call reports changed =     *)
(* true if the text held at least one terminator.                          *)
(***************************************************************************)
C11_TerminatorRoundTrip ==
    \A k \in Returned :
        /\ k < Len(calls)
        /\ params.end_eol = "as-is" /\ params.bom = "as-is"
        /\ params.encoding = "as-is"
        /\ calls[k + 1].eol # calls[k].eol
        /\ SinglePass(calls[k].s_dec, calls[k + 1].eol) = calls[k].s_dec
        => /\ calls[k + 1].ok
           /\ FileAfter(k + 1) = calls[k].b_in
           /\ TokenCount(calls[k].s_dec) > 0 => calls[k].changed

(***************************************************************************)
(* C12: a call of process_file that raises, for an unsupported eol, a      *)
(* decode error or an encode error, returns no changed result, has no      *)
(* b_out, leaves the bytes at path as they were and leaves no byte in the  *)
(* temporary file it made.                                                 *)
(***************************************************************************)
C12_FailureLeavesFile ==
    [][LET n == Len(calls')
       IN  n > Len(calls) /\ ~calls'[n].ok =>
               /\ file' = file
               /\ ~calls'[n].changed
               /\ calls'[n].b_out = <<>>
               /\ \A i \in 1..Len(temp') : temp'[i] = <<>>]_vars

\* A call raised in encoding under strict, on a file that holds bytes and
\* still holds them
C12_Witness ==
    /\ Len(calls) = 1
    /\ calls[1].error = "UnicodeEncodeError"
    /\ calls[1].s_out # <<>>
    /\ file = calls[1].b_in
    /\ temp = <<b_empty>>

(***************************************************************************)
(* C13: when a call guesses the encoding, a buffer that begins with FF FE  *)
(* and holds no zero byte is guessed utf_16_le, and a buffer that begins   *)
(* with EF BB BF and goes on with bytes 01..7F only is guessed utf_8.      *)
(***************************************************************************)
C13_GuessFromMarkAlone ==
    \A k \in Calls :
        LET b == calls[k].b_in
        IN  params.original_encoding = "guess" /\ calls[k].from_enc # "" =>
                /\ startswith(b, b_bom16le) /\ find(b, 0) < 0
                    => calls[k].from_enc = "utf_16_le"
                /\ (/\ startswith(b, b_bom8)
                    /\ \A i \in (Len(b_bom8) + 1)..Len(b) : b[i] \in 1..127)
                    => calls[k].from_enc = "utf_8"

C15_GuessDecodesBuffer ==
    \A k \in Calls :
        params.original_encoding = "guess" /\ calls[k].from_enc # "" =>
            /\ decode(calls[k].b_in, calls[k].from_enc).ok
            /\ ~BeginsWithMark(calls[k].b_in)
                => calls[k].error # "UnicodeDecodeError"

(***************************************************************************)
(* C16: a call of process_file whose eol is none of cr, lf, crlf, whose    *)
(* end_eol is none of absent, present, as-is or whose bom is none of       *)
(* absent, as-is raises and writes nothing.                                *)
(***************************************************************************)
C16_UnrecognizedValueIsFatal ==
    \A k \in Calls :
        \/ params.eol \notin EolValues
        \/ params.end_eol \notin EndEolValues
        \/ params.bom \notin BomValues
        => ~calls[k].ok /\ calls[k].b_out = <<>>

====
